---------------------------- MODULE Spec2Model ----------------------------
(***************************************************************************)
(* Climate-Policy-Maker: the FastAPI backend (src/backend/main.py and the  *)
(* older src/main.py) and the Streamlit dashboard (src/app.py).            *)
(*                                                                         *)
(* Three specifications share the module:                                  *)
(*   SpecPolicy     one backend request at a time, stepped through its     *)
(*                  outbound HTTP calls;                                   *)
(*   SpecDashboard  the dashboard's trigger handler, the st.cache_data     *)
(*                  memoisation of fetch_policy and the session state;     *)
(*   SpecViews      the visualisation and export tabs of one script run    *)
(*                  over a stored result.                                  *)
(* JSON objects are records, JSON arrays are sequences, a Python string    *)
(* that the code inspects character by character is a sequence of          *)
(* one-character strings.                                                  *)
(***************************************************************************)
EXTENDS Integers, Sequences, FiniteSets, TLC

VARIABLES
  \* ---- backend (SpecPolicy)
  variant,        \* which backend file is deployed: "backend" | "legacy"
  pc,             \* position of the request handler
  op,             \* endpoint being served: "weather" | "policy" | "none"
  req,            \* the query parameters of the request being served
  geo,            \* lat/lon taken from the geocoding result
  open_meteo_data,\* forecast payload
  weather_data,   \* what get_weather gave back to its caller
  response,       \* what the endpoint layer answers
  trace,          \* calls made while serving this request, in order
  \* ---- dashboard (SpecDashboard)
  clock,          \* seconds
  cache,          \* st.cache_data store of fetch_policy: key -> entry
  last_response,  \* st.session_state["last_response"]
  shown,          \* the status element of the last trigger
  calls,          \* history of fetch_policy calls
  serial,         \* number of requests issued to the Policy endpoint
  ticks,          \* number of clock advances
  \* ---- views (SpecViews)
  reportlab,      \* is the PDF library importable
  stage,          \* position of the script run in the tabs
  viz,            \* what the visualisation tab rendered
  export          \* what the export tab rendered

policyVars == <<variant, pc, op, req, geo, open_meteo_data, weather_data, response, trace>>
dashVars   == <<clock, cache, shown, calls, serial, ticks>>
viewVars   == <<reportlab, stage, viz, export>>
vars == <<policyVars, dashVars, last_response, viewVars>>

None == [none |-> TRUE]

(***************************************************************************)
(* Strings inspected by the topic guard                                    *)
(***************************************************************************)
UpperCase ==
  <<"A", "B", "C", "D", "E", "F", "G", "H", "I", "J", "K", "L", "M",
    "N", "O", "P", "Q", "R", "S", "T", "U", "V", "W", "X", "Y", "Z">>

LowerCase ==
  <<"a", "b", "c", "d", "e", "f", "g", "h", "i", "j", "k", "l", "m",
    "n", "o", "p", "q", "r", "s", "t", "u", "v", "w", "x", "y", "z">>

\* str.lower() on one character
LowerChar(ch) ==
  IF \E i \in 1..Len(UpperCase) : UpperCase[i] = ch
  THEN LowerCase[CHOOSE i \in 1..Len(UpperCase) : UpperCase[i] = ch]
  ELSE ch

\* user_prompt.lower()
Lower(s) == [i \in 1..Len(s) |-> LowerChar(s[i])]

\* Python's  word in text  on strings
IsSubstring(word, text) ==
  \E i \in 0..(Len(text) - Len(word)) :
    \A k \in 1..Len(word) : text[i + k] = word[k]

KEYWORDS ==
  << <<"c", "l", "i", "m", "a", "t", "e">>,
     <<"w", "e", "a", "t", "h", "e", "r">>,
     <<"e", "n", "v", "i", "r", "o", "n", "m", "e", "n", "t">>,
     <<"s", "u", "s", "t", "a", "i", "n", "a", "b", "i", "l", "i", "t", "y">>,
     <<"p", "o", "l", "i", "c", "y">>,
     <<"g", "r", "e", "e", "n">>,
     <<"e", "n", "e", "r", "g", "y">>,
     <<"e", "m", "i", "s", "s", "i", "o", "n">>,
     <<"c", "a", "r", "b", "o", "n">>,
     <<"p", "o", "l", "l", "u", "t", "i", "o", "n">>,
     <<"t", "e", "m", "p", "e", "r", "a", "t", "u", "r", "e">>,
     <<"p", "r", "e", "c", "i", "p", "i", "t", "a", "t", "i", "o", "n">>,
     <<"f", "l", "o", "o", "d">>,
     <<"d", "r", "o", "u", "g", "h", "t">> >>

\* any(word in user_prompt.lower() for word in [...])
HasKeyword(user_prompt) ==
  \E n \in 1..Len(KEYWORDS) : IsSubstring(KEYWORDS[n], Lower(user_prompt))

REJECTION == "This model is designed for climate-related problems. Please provide a climate-related prompt."

MAX_TOKENS == 1000

(***************************************************************************)
(* Inputs of the backend                                                   *)
(***************************************************************************)
Cities == {"Lahore", "Nowhere12345"}

Models == {"gpt-4o-mini", "gpt-5-nano"}

\* temperature in tenths: 0.0 .. 1.0 step 0.1; 4 is the default 0.4
Temperatures == {4, 10}

PromptSamples ==
  { <<"S", "u", "g", "g", "e", "s", "t", " ", "c", "l", "i", "m", "a", "t", "e", "-",
      "f", "r", "i", "e", "n", "d", "l", "y", " ", "p", "o", "l", "i", "c", "y", " ",
      "f", "o", "r", " ", "t", "h", "i", "s", " ", "c", "i", "t", "y", ".">>,
    <<"C", "L", "I", "M", "A", "T", "E">>,
    <<"W", "e", "a", "t", "h", "e", "r", "?">>,
    <<"E", "N", "V", "I", "R", "O", "N", "M", "E", "N", "T">>,
    <<"S", "u", "s", "t", "a", "i", "n", "a", "b", "i", "l", "i", "t", "y">>,
    <<"G", "r", "e", "e", "n", " ", "r", "o", "o", "f", "s">>,
    <<"e", "n", "e", "r", "g", "y">>,
    <<"e", "m", "i", "s", "s", "i", "o", "n", "s">>,
    <<"c", "a", "r", "b", "o", "n", "a", "r", "a", " ", "r", "e", "c", "i", "p", "e">>,
    <<"P", "o", "l", "l", "u", "t", "i", "o", "n">>,
    <<"T", "E", "M", "P", "E", "R", "A", "T", "U", "R", "E">>,
    <<"p", "r", "e", "c", "i", "p", "i", "t", "a", "t", "i", "o", "n">>,
    <<"F", "l", "o", "o", "d", " ", "r", "i", "s", "k">>,
    <<"x", "D", "R", "O", "U", "G", "H", "T", "x">>,
    <<>>,
    <<"B", "e", "s", "t", " ", "p", "i", "z", "z", "a", " ", "i", "n", " ", "t", "o", "w", "n", "?">>,
    <<"p", "o", "l", "i", "c", "i", "e", "s">>,
    <<"p", "o", "l", "i", "c", " ", "y">>,
    <<"c", "l", "i", "m", "a", " ", "t", "e">>,
    <<"f", "l", "o", "o">>,
    <<"T", "e", "l", "l", " ", "m", "e", " ", "a", " ", "j", "o", "k", "e">> }

(***************************************************************************)
(* What the three upstream services may answer.  A call either raises      *)
(* (transport error, or a body .json() cannot decode) or yields JSON.      *)
(***************************************************************************)
Raises(e) == [ok |-> FALSE, exc |-> e]

Json(j) == [ok |-> TRUE, json |-> j]

TransportFaults == {"ConnectionError", "JSONDecodeError"}

GeoOutcomes ==
  {Raises(e) : e \in TransportFaults}
  \cup {Json([generationtime_ms |-> 1]), Json([results |-> <<>>])}
  \cup {Json([results |-> <<[latitude |-> c[1], longitude |-> c[2]]>>]) :
          c \in {<<31, 74>>, <<24, 67>>}}

ForecastOutcomes ==
  {Raises(e) : e \in TransportFaults}
  \cup {Json([daily |-> "7 days", daily_units |-> "units"]),
        Json([error |-> TRUE, reason |-> "bad request"])}

CurrentOutcomes ==
  {Raises(e) : e \in TransportFaults}
  \cup {Json([current |-> "conditions"]),
        Json([error |-> [code |-> 1006]])}

ChatOutcomes ==
  {Raises(e) : e \in TransportFaults}
  \cup {Json([choices |-> <<[message |-> [content |-> "policy text"]]>>]),
        Json([error |-> "invalid api key"]),
        Json([choices |-> <<>>]),
        Json([choices |-> <<[finish_reason |-> "length"]>>]),
        Json([choices |-> <<[message |-> [role |-> "assistant"]]>>])}

(***************************************************************************)
(* get_weather                                                             *)
(***************************************************************************)
CallEv(f) == [ev |-> "call", fn |-> f]

ReturnEv(f) == [ev |-> "return", fn |-> f]

RaiseEv(f) == [ev |-> "raise", fn |-> f]

\* one outbound HTTP call and what came back
HttpEv(service, params, got) ==
  [ev |-> "http", to |-> service, params |-> params, got |-> got]

Returned(v) == [kind |-> "return", value |-> v]

Raised(e) == [kind |-> "raise", exc |-> e]

\* geo_url
GeoQuery(city) == [name |-> city]

\* open_meteo_url
ForecastQuery(city, lat, lon) ==
  [latitude |-> lat, longitude |-> lon,
   daily |-> "temperature_2m_max,temperature_2m_min,precipitation_sum",
   timezone |-> "auto"]

\* the current-conditions query built from the geocoded coordinates
WeatherApiQueryByCoordinates(city, lat, lon) ==
  [key |-> "WEATHERAPI_KEY", latitude |-> lat, longitude |-> lon]

\* weatherapi_url
WeatherApiQuery(city, lat, lon) == [key |-> "WEATHERAPI_KEY", q |-> city]

\* "results" not in geo_data
NoResults(geo_data) == "results" \notin DOMAIN geo_data

\* get_weather without its try/except
GetWeatherNoCatch(e) == Raised(e)

\* except Exception as e: return {"error": str(e)}
GetWeatherExcept(e) == Returned([error |-> e])

\* How get_weather's end reaches its caller: the /weather endpoint answers with
\* it, generate_policy goes on to its guard.
LeaveGetWeather(ret, tr) ==
  /\ weather_data' = ret
  /\ trace' = Append(tr, IF ret.kind = "return" THEN ReturnEv("get_weather")
                                                ELSE RaiseEv("get_weather"))
  /\ IF ret.kind = "raise"
     THEN /\ pc' = "done"
          /\ response' = [status |-> 500, fault |-> ret.exc]
     ELSE IF op = "weather"
     THEN /\ pc' = "done"
          /\ response' = [status |-> 200, body |-> ret.value]
     ELSE /\ pc' = "guard"
          /\ UNCHANGED response

\* GET /weather?city=
WeatherRequest ==
  /\ pc = "idle"
  /\ \E c \in Cities : req' = [city |-> c]
  /\ op' = "weather"
  /\ pc' = "geo"
  /\ trace' = <<CallEv("get_weather")>>
  /\ UNCHANGED <<variant, geo, open_meteo_data, weather_data, response>>
  /\ UNCHANGED <<dashVars, last_response, viewVars>>

\* geo_data = requests.get(geo_url).json(), the "results" test, lat, lon
Geocode ==
  /\ pc = "geo"
  /\ \E r \in GeoOutcomes :
       LET tr == Append(trace, HttpEv("geocoding", GeoQuery(req.city), r)) IN
       IF ~r.ok
       THEN LeaveGetWeather(GetWeatherExcept(r.exc), tr) /\ UNCHANGED geo
       ELSE IF NoResults(r.json)
       THEN LeaveGetWeather(Returned([error |-> "City not found"]), tr) /\ UNCHANGED geo
       ELSE IF Len(r.json.results) = 0
       THEN LeaveGetWeather(GetWeatherExcept("list index out of range"), tr) /\ UNCHANGED geo
       ELSE /\ geo' = [lat |-> r.json.results[1].latitude,
                       lon |-> r.json.results[1].longitude]
            /\ trace' = tr
            /\ pc' = "forecast"
            /\ UNCHANGED <<weather_data, response>>
  /\ UNCHANGED <<variant, op, req, open_meteo_data>>
  /\ UNCHANGED <<dashVars, last_response, viewVars>>

\* open_meteo_data = requests.get(open_meteo_url).json()
Forecast ==
  /\ pc = "forecast"
  /\ \E r \in ForecastOutcomes :
       LET tr == Append(trace, HttpEv("forecast", ForecastQuery(req.city, geo.lat, geo.lon), r)) IN
       IF ~r.ok
       THEN LeaveGetWeather(GetWeatherExcept(r.exc), tr) /\ UNCHANGED open_meteo_data
       ELSE /\ open_meteo_data' = r.json
            /\ trace' = tr
            /\ pc' = "current"
            /\ UNCHANGED <<weather_data, response>>
  /\ UNCHANGED <<variant, op, req, geo>>
  /\ UNCHANGED <<dashVars, last_response, viewVars>>

\* weatherapi_data = requests.get(weatherapi_url).json() and the merged return
Current ==
  /\ pc = "current"
  /\ \E r \in CurrentOutcomes :
       LET tr == Append(trace, HttpEv("weatherapi", WeatherApiQuery(req.city, geo.lat, geo.lon), r)) IN
       IF ~r.ok
       THEN LeaveGetWeather(GetWeatherExcept(r.exc), tr)
       ELSE LeaveGetWeather(Returned([city |-> req.city,
                                      OpenMeteo |-> open_meteo_data,
                                      WeatherAPI |-> r.json]), tr)
  /\ UNCHANGED <<variant, op, req, geo, open_meteo_data>>
  /\ UNCHANGED <<dashVars, last_response, viewVars>>

(***************************************************************************)
(* generate_policy                                                         *)
(***************************************************************************)
\* GET /policy: the handler's first statement calls get_weather(city)
PolicyRequest ==
  /\ pc = "idle"
  /\ IF variant = "backend"
     THEN \E c \in Cities, p \in PromptSamples, m \in Models, t \in Temperatures :
            req' = [city |-> c, user_prompt |-> p, model |-> m, temperature |-> t]
     ELSE \E c \in Cities : req' = [city |-> c]
  /\ op' = "policy"
  /\ pc' = "geo"
  /\ trace' = <<CallEv("get_weather")>>
  /\ UNCHANGED <<variant, geo, open_meteo_data, weather_data, response>>
  /\ UNCHANGED <<dashVars, last_response, viewVars>>

\* the body the chat-completion provider is sent
ChatPayload ==
  IF variant = "backend"
  THEN [model |-> req.model, temperature |-> req.temperature, max_tokens |-> MAX_TOKENS,
        messages |-> <<[role |-> "system", content |-> "You are a climate policy expert."],
                       [role |-> "user",
                        content |-> [user_prompt |-> req.user_prompt, city |-> req.city,
                                     weather_data |-> weather_data.value,
                                     template |-> "policy_template"]]>>]
  ELSE [model |-> "gpt-4o-mini",
        messages |-> <<[role |-> "system", content |-> "You are a climate policy expert."],
                       [role |-> "user",
                        content |-> [city |-> req.city,
                                     weather_data |-> weather_data.value]]>>]

\* gpt_response["choices"][0]["message"]["content"]
ExtractPolicy(gpt_response) ==
  IF "choices" \notin DOMAIN gpt_response THEN Raised("KeyError: choices")
  ELSE IF Len(gpt_response.choices) = 0 THEN Raised("IndexError")
  ELSE IF "message" \notin DOMAIN gpt_response.choices[1] THEN Raised("KeyError: message")
  ELSE IF "content" \notin DOMAIN gpt_response.choices[1].message THEN Raised("KeyError: content")
  ELSE Returned(gpt_response.choices[1].message.content)

\* generate_policy without the topic guard
GuardMissing ==
  /\ pc = "guard"
  /\ pc' = "chat"
  /\ UNCHANGED <<variant, op, req, geo, open_meteo_data, weather_data, response, trace>>
  /\ UNCHANGED <<dashVars, last_response, viewVars>>

\* the topic guard; the older variant has none
Guard ==
  /\ pc = "guard"
  /\ IF variant = "backend" /\ ~HasKeyword(req.user_prompt)
     THEN /\ response' = [status |-> 200, body |-> [message |-> REJECTION]]
          /\ pc' = "done"
     ELSE /\ pc' = "chat"
          /\ UNCHANGED response
  /\ UNCHANGED <<variant, op, req, geo, open_meteo_data, weather_data, trace>>
  /\ UNCHANGED <<dashVars, last_response, viewVars>>

\* a chat-completion call that is made again when it raised
ChatWithRetry ==
  /\ pc = "chat"
  /\ \E r1 \in ChatOutcomes, r2 \in ChatOutcomes :
       LET r == IF r1.ok THEN r1 ELSE r2
           x == IF r.ok THEN ExtractPolicy(r.json) ELSE Raised(r.exc)
           tr == Append(trace, HttpEv("chat", ChatPayload, r1))
       IN
       /\ trace' = IF r1.ok THEN tr ELSE Append(tr, HttpEv("chat", ChatPayload, r2))
       /\ response' = IF x.kind = "return"
                      THEN [status |-> 200,
                            body |-> [city |-> req.city, weather |-> weather_data.value,
                                      policy |-> x.value]]
                      ELSE [status |-> 500, fault |-> x.exc]
  /\ pc' = "done"
  /\ UNCHANGED <<variant, op, req, geo, open_meteo_data, weather_data>>
  /\ UNCHANGED <<dashVars, last_response, viewVars>>

\* requests.post(...).json() and the returned dict; an exception leaves the
\* handler and the framework answers 500
Chat ==
  /\ pc = "chat"
  /\ \E r \in ChatOutcomes :
       LET x == IF r.ok THEN ExtractPolicy(r.json) ELSE Raised(r.exc) IN
       /\ trace' = Append(trace, HttpEv("chat", ChatPayload, r))
       /\ response' = IF x.kind = "return"
                      THEN [status |-> 200,
                            body |-> [city |-> req.city, weather |-> weather_data.value,
                                      policy |-> x.value]]
                      ELSE [status |-> 500, fault |-> x.exc]
  /\ pc' = "done"
  /\ UNCHANGED <<variant, op, req, geo, open_meteo_data, weather_data>>
  /\ UNCHANGED <<dashVars, last_response, viewVars>>

\* the response is sent; the server keeps nothing of the request
Respond ==
  /\ pc = "done"
  /\ pc' = "idle"
  /\ op' = "none"
  /\ req' = None
  /\ geo' = None
  /\ open_meteo_data' = None
  /\ weather_data' = None
  /\ response' = None
  /\ trace' = <<>>
  /\ UNCHANGED variant
  /\ UNCHANGED <<dashVars, last_response, viewVars>>

(***************************************************************************)
(* The dashboard: fetch_policy behind st.cache_data(ttl=300), the trigger  *)
(* handler and the session state                                           *)
(***************************************************************************)
TTL == 300

MaxTriggers == 3

MaxTicks == 2

\* the sidebar's default input and inputs differing from it in one control
BaseInput == <<"Lahore", "gpt-4o-mini", 4, "Suggest climate-friendly policy for this city.">>

TriggerInputs ==
  {BaseInput}
  \cup {[BaseInput EXCEPT ![1] = "Karachi"],
        [BaseInput EXCEPT ![2] = "gpt-5-nano"],
        [BaseInput EXCEPT ![3] = 5],
        [BaseInput EXCEPT ![4] = "Flood risk"]}

\* what requests.get(.../policy, timeout=60) followed by raise_for_status()
\* and .json() yields, and the seconds it took; a failure of any kind leaves
\* fetch_policy as an exception
PolicyEndpointOutcomes ==
  {[ok |-> TRUE, took |-> 2],
   [ok |-> FALSE, exc |-> "HTTPError", took |-> 0],
   [ok |-> FALSE, exc |-> "ConnectionError", took |-> 0]}

\* the PolicyResult of the n-th request the endpoint served
PolicyBody(city, n) == [city |-> city, weather |-> "bundle", policy |-> n]

\* a cache key that leaves the prompt out
CacheKeyWithoutPrompt(city, model, temperature, user_prompt) ==
  <<city, model, temperature>>

\* st.cache_data keys an entry by the function's arguments
CacheKey(city, model, temperature, user_prompt) ==
  <<city, model, temperature, user_prompt>>

\* an entry is served until ttl seconds after it was stored
Fresh(entry, now) == now - entry.stored < TTL

\* a handler that clears the stored result when the fetch fails
SessionAfterClearing(prev, result) ==
  IF result.kind = "return" THEN result.value ELSE None

\* try: data = fetch_policy(...); st.session_state["last_response"] = data
\* except Exception as e: st.error(...)
SessionAfter(prev, result) ==
  IF result.kind = "return" THEN result.value ELSE prev

\* if run: ... (the "Generate / Refresh" button), fetch_policy included
Trigger ==
  /\ Len(calls) < MaxTriggers
  /\ \E in \in TriggerInputs, r \in PolicyEndpointOutcomes :
       LET key == CacheKey(in[1], in[2], in[3], in[4])
           hit == key \in DOMAIN cache /\ Fresh(cache[key], clock)
           result == IF hit THEN Returned(cache[key].value)
                     ELSE IF r.ok THEN Returned(PolicyBody(in[1], serial + 1))
                     ELSE Raised(r.exc)
       IN
       /\ serial' = IF hit THEN serial ELSE serial + 1
       /\ clock' = IF hit THEN clock ELSE clock + r.took
       /\ cache' = IF ~hit /\ result.kind = "return"
                   THEN (key :> [value |-> result.value, stored |-> clock']) @@ cache
                   ELSE cache
       /\ last_response' = SessionAfter(last_response, result)
       /\ shown' = IF result.kind = "return" THEN "Done!" ELSE "Failed"
       /\ calls' = Append(calls, [args |-> in, at |-> clock, done |-> clock', issued |-> ~hit,
                                  ok |-> result.kind = "return",
                                  result |-> IF result.kind = "return"
                                             THEN result.value ELSE None])
  /\ UNCHANGED ticks
  /\ UNCHANGED <<policyVars, viewVars>>

TickSteps == {1, TTL - 1}

\* time passes between two presses of the button
Tick ==
  /\ ticks < MaxTicks
  /\ \E d \in TickSteps : clock' = clock + d
  /\ ticks' = ticks + 1
  /\ UNCHANGED <<cache, last_response, shown, calls, serial>>
  /\ UNCHANGED <<policyVars, viewVars>>

(***************************************************************************)
(* The tabs: to_daily_dataframe, the charts, the export summary, the PDF   *)
(***************************************************************************)
MaxDays == 4

Metrics == <<"temperature_2m_max", "temperature_2m_min", "precipitation_sum">>

MetricSet == {Metrics[i] : i \in 1..Len(Metrics)}

\* the sidebar's city, the fallback of data.get("city", city)
SidebarCity == "Lahore"

\* the value the provider reports for column c on day i
Reading(c, i) ==
  CASE c = "time" -> i
    [] c = "temperature_2m_max" -> 300 + i
    [] c = "temperature_2m_min" -> 200 + i
    [] c = "precipitation_sum" -> 100 + i

\* the daily sub-objects: parallel arrays of n entries under the given keys
DailyOf(keys, n) == [c \in keys |-> [i \in 1..n |-> Reading(c, i)]]

Dailies ==
  {DailyOf(keys, n) : keys \in SUBSET ({"time"} \cup MetricSet), n \in 0..MaxDays}

\* daily_units as the provider may send it ("degC" stands for the degree sign and C)
UnitSchemes ==
  { [temperature_2m_max |-> "degC", temperature_2m_min |-> "degC", precipitation_sum |-> "mm"],
    [temperature_2m_max |-> "degF", temperature_2m_min |-> "degF", precipitation_sum |-> "inch"],
    [temperature_2m_max |-> "degC", temperature_2m_min |-> "", precipitation_sum |-> "mm"],
    [time |-> "iso8601"] }

OpenMeteoPayloads ==
  {[daily |-> d, daily_units |-> u] : d \in Dailies, u \in UnitSchemes}
  \cup {[daily |-> d] : d \in Dailies}
  \cup {[error |-> TRUE, reason |-> "bad request"]}

\* what st.session_state["last_response"] may hold when the tabs are drawn
StoredResults ==
  {None, [message |-> REJECTION],
   [city |-> "Nowhere12345", weather |-> [error |-> "City not found"], policy |-> "policy text"]}
  \cup {[city |-> "Lahore", policy |-> "policy text",
         weather |-> [city |-> "Lahore", OpenMeteo |-> o, WeatherAPI |-> [current |-> "conditions"]]] :
          o \in OpenMeteoPayloads}

\* dict.get(key, default)
Get(d, key, default) == IF key \in DOMAIN d THEN d[key] ELSE default

EmptyDict == <<>>

\* a table: n rows, and for each column name its n cells
EmptyFrame == [n |-> 0, col |-> EmptyDict]

\* df.empty
IsEmptyFrame(df) == df.n = 0 \/ DOMAIN df.col = {}

\* f"{col} ({u})" if u else col; a formatted name is the pair <<col, u>>
Annotated(col, u) == IF u # "" THEN <<col, u>> ELSE <<col>>

\* the name a column of daily carries in the returned table
ColumnName(c, units) ==
  IF c = "time" THEN <<"date">>
  ELSE IF c \in MetricSet THEN Annotated(c, Get(units, c, ""))
  ELSE <<c>>

to_daily_dataframe(openmeteo_json) ==
  IF "daily" \notin DOMAIN openmeteo_json
  THEN EmptyFrame
  ELSE LET daily == openmeteo_json.daily
           units == Get(openmeteo_json, "daily_units", EmptyDict)
           names == {ColumnName(c, units) : c \in DOMAIN daily}
       IN [n |-> IF DOMAIN daily = {} THEN 0
                 ELSE Len(daily[CHOOSE c \in DOMAIN daily : TRUE]),
           col |-> [nm \in names |->
                      daily[CHOOSE c \in DOMAIN daily : ColumnName(c, units) = nm]]]

\* a column test by equality with the bare field name
NameEquals(c, base) == c = <<base>>

\* "temperature_2m_max" in c, for a column name c
NameContains(c, base) == c[1] = base

\* any(base in c for c in df.columns)
HasColumnLike(df, base) == \E c \in DOMAIN df.col : NameContains(c, base)

\* data.get("weather", {}).get("OpenMeteo", {})
OpenMeteoOf(data) == Get(Get(data, "weather", EmptyDict), "OpenMeteo", EmptyDict)

\* with tab_viz: the forecast table and its three charts
RenderViz ==
  /\ stage = "viz"
  /\ IF last_response = None
     THEN /\ viz' = [shown |-> "Generate first.", df |-> EmptyFrame, charts |-> {}, raised |-> FALSE]
          /\ stage' = "export"
     ELSE LET df == to_daily_dataframe(OpenMeteoOf(last_response))
              wanted == {b \in MetricSet : HasColumnLike(df, b)}
          IN IF IsEmptyFrame(df)
             THEN /\ viz' = [shown |-> "No data for charting.", df |-> df, charts |-> {}, raised |-> FALSE]
                  /\ stage' = "export"
             ELSE IF wanted # {} /\ <<"date">> \notin DOMAIN df.col
             THEN /\ viz' = [shown |-> "table", df |-> df, charts |-> {}, raised |-> TRUE]
                  /\ stage' = "halted"
             ELSE /\ viz' = [shown |-> "table", df |-> df, charts |-> wanted, raised |-> FALSE]
                  /\ stage' = "export"
  /\ UNCHANGED <<last_response, reportlab, export>>
  /\ UNCHANGED <<policyVars, dashVars>>

\* the label, the test and the cell access of the three  if ... in row  lines
SummaryFields ==
  << [label |-> "Max", test |-> <<"temperature_2m_max">>, cell |-> <<"temperature_2m_max", "degC">>],
     [label |-> "Min", test |-> <<"temperature_2m_min">>, cell |-> <<"temperature_2m_min", "degC">>],
     [label |-> "Precip", test |-> <<"precipitation_sum">>, cell |-> <<"precipitation_sum", "mm">>] >>

\* key in row
InRow(df, name) == name \in DOMAIN df.col

\* does building the line of a row raise KeyError
LineRaises(df) ==
  \/ <<"date">> \notin DOMAIN df.col
  \/ \E k \in 1..Len(SummaryFields) :
        InRow(df, SummaryFields[k].test) /\ SummaryFields[k].cell \notin DOMAIN df.col

\* the line of row i: its date and the labelled values appended to it
SummaryLine(df, i) ==
  LET used == {k \in 1..Len(SummaryFields) : InRow(df, SummaryFields[k].test)} IN
  [date |-> df.col[<<"date">>][i],
   fields |-> {[label |-> SummaryFields[k].label, value |-> df.col[SummaryFields[k].cell][i]] :
                 k \in used}]

Min(a, b) == IF a < b THEN a ELSE b

HEAD_ROWS == 3

\* for _, row in df.head(3).iterrows(): ...; the summary is kept as its lines
WeatherSummary(df) ==
  IF IsEmptyFrame(df) THEN Returned(<<"No forecast available.">>)
  ELSE IF LineRaises(df) THEN Raised("KeyError")
  ELSE Returned([i \in 1..Min(HEAD_ROWS, df.n) |-> SummaryLine(df, i)])

\* render_pdf with its imports outside the try
render_pdf_unguarded(policy_text, city, weather_summary) ==
  IF ~reportlab
  THEN Raised("ImportError")
  ELSE Returned(<<"%PDF", [title |-> "Climate Policy Report", city |-> city],
                  [weather |-> weather_summary], [policy |-> policy_text]>>)

\* render_pdf: without reportlab a warning and b""; otherwise the built document
render_pdf(policy_text, city, weather_summary) ==
  IF ~reportlab
  THEN Returned(<<>>)
  ELSE Returned(<<"%PDF", [title |-> "Climate Policy Report", city |-> city],
                  [weather |-> weather_summary], [policy |-> policy_text]>>)

\* show_pdf_inline
show_pdf_inline(pdf_bytes) ==
  IF pdf_bytes = <<>> THEN "PDF not available." ELSE "iframe"

NotRendered == [shown |-> "nothing", summary |-> None, called |-> FALSE, pdf |-> None, raised |-> FALSE]

\* with tab_export: the summary, render_pdf, the preview and the download button
RenderExport ==
  /\ stage = "export"
  /\ IF last_response = None
     THEN /\ export' = [NotRendered EXCEPT !.shown = "Generate first."]
          /\ stage' = "end"
     ELSE LET policy_text == Get(last_response, "policy", "")
              city_used == Get(last_response, "city", SidebarCity)
              df == to_daily_dataframe(OpenMeteoOf(last_response))
              summary == WeatherSummary(df)
              pdf == render_pdf(policy_text, city_used, summary.value)
          IN IF summary.kind = "raise"
             THEN /\ export' = [NotRendered EXCEPT !.raised = TRUE]
                  /\ stage' = "halted"
             ELSE IF pdf.kind = "raise"
             THEN /\ export' = [NotRendered EXCEPT !.summary = summary.value, !.called = TRUE,
                                                   !.raised = TRUE]
                  /\ stage' = "halted"
             ELSE /\ export' = [shown |-> show_pdf_inline(pdf.value), summary |-> summary.value,
                                called |-> TRUE, pdf |-> pdf.value, raised |-> FALSE]
                  /\ stage' = "end"
  /\ UNCHANGED <<last_response, reportlab, viz>>
  /\ UNCHANGED <<policyVars, dashVars>>

\* any widget interaction runs the script again over the same stored result
Rerun ==
  /\ stage \in {"end", "halted"}
  /\ stage' = "viz"
  /\ viz' = None
  /\ export' = None
  /\ UNCHANGED <<last_response, reportlab>>
  /\ UNCHANGED <<policyVars, dashVars>>

(***************************************************************************)
(* Specifications                                                          *)
(***************************************************************************)
PolicyIdle ==
  /\ pc = "idle"
  /\ op = "none"
  /\ req = None
  /\ geo = None
  /\ open_meteo_data = None
  /\ weather_data = None
  /\ response = None
  /\ trace = <<>>

DashboardFresh ==
  /\ clock = 0
  /\ cache = EmptyDict
  /\ shown = "none"
  /\ calls = <<>>
  /\ serial = 0
  /\ ticks = 0

ViewsOff ==
  /\ reportlab = TRUE
  /\ stage = "off"
  /\ viz = None
  /\ export = None

\* the server after start-up, running one of the two backend files
InitPolicy ==
  /\ variant \in {"backend", "legacy"}
  /\ PolicyIdle
  /\ DashboardFresh
  /\ last_response = None
  /\ ViewsOff

NextPolicy ==
  \/ WeatherRequest
  \/ PolicyRequest
  \/ Geocode
  \/ Forecast
  \/ Current
  \/ Guard
  \/ Chat
  \/ Respond

SpecPolicy == InitPolicy /\ [][NextPolicy]_vars

\* a new dashboard process and session: empty cache, last_response None
InitDashboard ==
  /\ variant = "backend"
  /\ PolicyIdle
  /\ DashboardFresh
  /\ last_response = None
  /\ ViewsOff

NextDashboard ==
  \/ Trigger
  \/ Tick

SpecDashboard == InitDashboard /\ [][NextDashboard]_vars

\* a script run that reaches the tabs with some stored result
InitViews ==
  /\ variant = "backend"
  /\ PolicyIdle
  /\ DashboardFresh
  /\ last_response \in StoredResults
  /\ reportlab \in BOOLEAN
  /\ stage = "viz"
  /\ viz = None
  /\ export = None

NextViews ==
  \/ RenderViz
  \/ RenderExport
  \/ Rerun

SpecViews == InitViews /\ [][NextViews]_vars

(***************************************************************************)
(* Properties of the backend (SpecPolicy)                                  *)
(***************************************************************************)
\* positions in trace of the HTTP calls made to one service
HttpTo(service) ==
  {i \in 1..Len(trace) : trace[i].ev = "http" /\ trace[i].to = service}

GetWeatherCalls ==
  {i \in 1..Len(trace) : trace[i].ev = "call" /\ trace[i].fn = "get_weather"}

GetWeatherEnds ==
  {i \in 1..Len(trace) : trace[i].ev \in {"return", "raise"} /\ trace[i].fn = "get_weather"}

\* some climate keyword occurs in p at some position, letter case ignored
MentionsClimate(p) ==
  \E n \in 1..Len(KEYWORDS) : \E at \in 1..Len(p) :
    /\ at + Len(KEYWORDS[n]) - 1 <= Len(p)
    /\ \A k \in 1..Len(KEYWORDS[n]) : LowerChar(p[at + k - 1]) = KEYWORDS[n][k]

PromptedPolicyRequest == op = "policy" /\ "user_prompt" \in DOMAIN req

\* the geocoding call answered without a "results" entry
GeoNoMatch ==
  \E i \in HttpTo("geocoding") :
    trace[i].got.ok /\ "results" \notin DOMAIN trace[i].got.json

\* one of get_weather's three calls raised
WeatherCallFailed ==
  \E i \in HttpTo("geocoding") \cup HttpTo("forecast") \cup HttpTo("weatherapi") :
    ~trace[i].got.ok

\* C1: a request whose user_prompt holds none of the keywords never reaches the
\* chat-completion provider and is answered with the rejection message.
C1_RejectedWithoutChat ==
  (PromptedPolicyRequest /\ ~MentionsClimate(req.user_prompt))
    => /\ HttpTo("chat") = {}
       /\ pc # "chat"
       /\ pc = "done" => response = [status |-> 200, body |-> [message |-> REJECTION]]

C1_Witness ==
  /\ pc = "done"
  /\ PromptedPolicyRequest
  /\ Len(req.user_prompt) > 0
  /\ ~MentionsClimate(req.user_prompt)
  /\ response = [status |-> 200, body |-> [message |-> REJECTION]]

\* C2: a finished request whose user_prompt holds a keyword has called
\* get_weather exactly once and the chat-completion provider exactly once, and
\* get_weather ended before the chat-completion call was issued.
C2_OneWeatherThenOneChat ==
  (pc = "done" /\ PromptedPolicyRequest /\ MentionsClimate(req.user_prompt))
    => /\ Cardinality(GetWeatherCalls) = 1
       /\ Cardinality(GetWeatherEnds) = 1
       /\ Cardinality(HttpTo("chat")) = 1
       /\ \A i \in GetWeatherEnds : \A j \in HttpTo("chat") : i < j

C2_Witness ==
  /\ pc = "done"
  /\ PromptedPolicyRequest
  /\ MentionsClimate(req.user_prompt)
  /\ \E j \in HttpTo("chat") : ~trace[j].got.ok

WellShaped(j) ==
  /\ "choices" \in DOMAIN j
  /\ Len(j.choices) > 0
  /\ "message" \in DOMAIN j.choices[1]
  /\ "content" \in DOMAIN j.choices[1].message

\* C4: a chat-completion call that fails, or whose response lacks
\* choices[0].message.content, ends the request in a handled error, never in a
\* fault that escapes the handler.
C4_MalformedChatIsHandled ==
  (pc = "done" /\ \E i \in HttpTo("chat") :
                     ~trace[i].got.ok \/ ~WellShaped(trace[i].got.json))
    => "fault" \notin DOMAIN response

\* C10 (as amended): the current-conditions provider is queried by city name
\* alone, and only after geocoding found a match and the forecast call
\* returned; without a geocoding match it is not queried.
C10_CurrentQueriedByCityAfterMatch ==
  /\ \A i \in HttpTo("weatherapi") :
       /\ trace[i].params = [key |-> "WEATHERAPI_KEY", q |-> req.city]
       /\ \E g \in HttpTo("geocoding") :
            g < i /\ trace[g].got.ok /\ "results" \in DOMAIN trace[g].got.json
       /\ \E f \in HttpTo("forecast") : f < i /\ trace[f].got.ok
  /\ GeoNoMatch => HttpTo("weatherapi") = {}

C10_Witness ==
  /\ weather_data # None
  /\ req.city = "Nowhere12345"
  /\ HttpTo("weatherapi") # {}

\* C10 (as stated): whenever get_weather has ended, the current-conditions
\* provider has been queried with the city name, whatever geocoding gave.
C10_CurrentAlwaysQueried ==
  weather_data # None =>
    \E i \in HttpTo("weatherapi") : trace[i].params.q = req.city

(***************************************************************************)
(* Properties of the dashboard (SpecDashboard)                             *)
(***************************************************************************)
SameArgs(i, j) == calls[i].args = calls[j].args

\* call i asked the Policy endpoint and got a result
Fetched(i) == calls[i].issued /\ calls[i].ok

\* earlier fetches of the same tuple whose result was stored less than TTL
\* seconds before call j was made
FreshFetchesFor(j) ==
  {i \in 1..(j - 1) : Fetched(i) /\ SameArgs(i, j) /\ calls[j].at - calls[i].done < TTL}

\* C5 (as amended): a call issues no request exactly when an earlier call with
\* the same tuple fetched its result from the endpoint and that result was
\* stored less than 300 s before; it then returns that result.  A call served
\* from the cache does not restart the window.
C5_CachedWithinWindowOfFetch ==
  \A j \in 1..Len(calls) :
    /\ calls[j].issued <=> FreshFetchesFor(j) = {}
    /\ \A i \in FreshFetchesFor(j) : calls[j].ok /\ calls[j].result = calls[i].result

C5_Witness ==
  \E i, j, k \in 1..Len(calls) :
    /\ i < j /\ j < k
    /\ SameArgs(i, j) /\ SameArgs(i, k)
    /\ Fetched(i)
    /\ ~calls[j].issued /\ calls[j].at - calls[i].done = TTL - 1
    /\ calls[k].issued /\ calls[k].at - calls[i].done = TTL

\* C5 (as stated): a call whose tuple equals that of an earlier successful call
\* ended less than 300 s before returns that call's result and issues no request;
\* any other call issues one.
C5_CachedAfterAnySuccess ==
  \A j \in 1..Len(calls) :
    LET recent == {i \in 1..(j - 1) :
                     calls[i].ok /\ SameArgs(i, j) /\ calls[j].at - calls[i].done < TTL}
    IN /\ calls[j].issued <=> recent = {}
       /\ \A i \in recent : calls[j].ok /\ calls[j].result = calls[i].result

OkCalls == {j \in 1..Len(calls) : calls[j].ok}

Latest(S) == CHOOSE j \in S : \A i \in S : i <= j

\* C6: the stored last result is the result of the most recent trigger whose
\* fetch succeeded, None before any has; a failed trigger shows the error.
C6_LastResponseIsLatestSuccess ==
  /\ last_response = IF OkCalls = {} THEN None ELSE calls[Latest(OkCalls)].result
  /\ Len(calls) > 0 => (shown = "Failed" <=> ~calls[Len(calls)].ok)

C6_Witness ==
  /\ Len(calls) >= 2
  /\ ~calls[Len(calls)].ok
  /\ OkCalls # {}
  /\ last_response = calls[Latest(OkCalls)].result
  /\ shown = "Failed"

(***************************************************************************)
(* Properties of the tabs (SpecViews)                                      *)
(***************************************************************************)
HasDaily ==
  /\ last_response # None
  /\ "weather" \in DOMAIN last_response
  /\ "OpenMeteo" \in DOMAIN last_response.weather
  /\ "daily" \in DOMAIN last_response.weather.OpenMeteo

TheDaily == last_response.weather.OpenMeteo.daily

\* the daily sub-object lists its days
HasDays == HasDaily /\ "time" \in DOMAIN TheDaily

Days == Len(TheDaily.time)

VizDrawn == viz # None /\ last_response # None

TableHasOneRowPerDay ==
  /\ viz.df.n = Days
  /\ \A c \in DOMAIN viz.df.col : Len(viz.df.col[c]) = Days
  /\ \A c \in DOMAIN TheDaily : \E nm \in DOMAIN viz.df.col : viz.df.col[nm] = TheDaily[c]

ChartsMatchColumns == \A b \in MetricSet : b \in viz.charts <=> b \in DOMAIN TheDaily

NoDailyNoCharts ==
  ~HasDaily => IsEmptyFrame(viz.df) /\ viz.charts = {} /\ ~viz.raised

\* C7 (as amended): a daily sub-object of N days gives a table of N rows; for
\* N >= 1 each of the three charts is drawn exactly when its column is present,
\* without raising; for N = 0, as without a daily sub-object, the table is empty
\* and no chart is drawn.
C7_RowsAndChartsForDays ==
  VizDrawn =>
    /\ HasDays => /\ TableHasOneRowPerDay
                  /\ ~viz.raised
                  /\ Days >= 1 => ChartsMatchColumns
                  /\ Days = 0 => viz.charts = {}
    /\ NoDailyNoCharts

C7_Witness ==
  /\ VizDrawn
  /\ HasDays
  /\ Days = MaxDays
  /\ viz.charts = {"temperature_2m_max", "precipitation_sum"}
  /\ <<"temperature_2m_max", "degF">> \in DOMAIN viz.df.col

\* C7 (as stated): a daily sub-object of N days gives a table of N rows and each
\* chart is drawn exactly when its column is present, for every N.
C7_ChartsForEveryDayCount ==
  VizDrawn =>
    /\ HasDays => TableHasOneRowPerDay /\ ~viz.raised /\ ChartsMatchColumns
    /\ NoDailyNoCharts

ExportDrawn == export # None /\ last_response # None

\* C8: without the PDF library render_pdf returns empty bytes for every input,
\* and an export tab that called it shows "PDF not available." and does not raise.
C8_NoPdfLibraryIsUnavailable ==
  ~reportlab =>
    /\ \A p \in {"", "policy text"} : \A c \in Cities :
         \A w \in {<<"No forecast available.">>, <<>>} :
           render_pdf(p, c, w) = Returned(<<>>)
    /\ (ExportDrawn /\ export.called) =>
         /\ ~export.raised
         /\ export.pdf = <<>>
         /\ export.shown = "PDF not available."

C8_Witness ==
  /\ ~reportlab
  /\ ExportDrawn
  /\ export.called
  /\ HasDays
  /\ stage = "end"

\* C9: for a stored result with a non-empty forecast table the summary has one
\* line for each of the first min(3, N) days, each line holds the day's date and
\* the value of every field the daily sub-object has, and building it does not raise.
C9_SummaryLinesHoldValues ==
  (ExportDrawn /\ HasDays /\ Days >= 1)
    => /\ ~export.raised
       /\ Len(export.summary) = Min(HEAD_ROWS, Days)
       /\ \A i \in 1..Min(HEAD_ROWS, Days) :
            /\ export.summary[i].date = TheDaily.time[i]
            /\ \A b \in MetricSet \cap DOMAIN TheDaily :
                 \E f \in export.summary[i].fields : f.value = TheDaily[b][i]

=============================================================================
